---------------------------- MODULE Spec2Model ----------------------------
(***************************************************************************)
(* Model of app.py, the LinkedIn job-market dashboard script.              *)
(*                                                                         *)
(* Python strings are sequences of one-character strings, so that          *)
(* lower(), strip(), join() and the `in` substring test are computed as    *)
(* Python computes them.  A dataframe cell is a record [na, v]: na is TRUE *)
(* for a missing value (NaN), otherwise v is the cell's text.              *)
(***************************************************************************)
EXTENDS Integers, Sequences, FiniteSets, TLC

VARIABLES
    jobs_csv,       \* the file at default_data_path: NoFile or a dataset
    uploaded_file,  \* the value of st.file_uploader: NoFile or a dataset
    pc,             \* position of the running script
    df,             \* the global df
    skills,         \* the global skills (the vocabulary extract_skills reads)
    sample_desc,    \* the value of the text area
    button,         \* the value of st.button("Generate Summary")
    charts,         \* the frequency tables this run has handed to a chart
    messages,       \* the st.warning / st.info / st.error / st.success shown
    about,          \* what the About Me handler has written
    prev,           \* the charts of the previous run (NoRun before the second)
    call,           \* the function call under test (pure functions)
    ret,            \* its return value
    pcall           \* "ready" before the call, "done" after it

vars == << jobs_csv, uploaded_file, pc, df, skills, sample_desc, button,
           charts, messages, about, prev, call, ret, pcall >>

pipelineVars == << jobs_csv, uploaded_file, pc, df, skills, sample_desc,
                   button, charts, messages, about, prev >>

callVars == << call, ret, pcall >>

-----------------------------------------------------------------------------
(* Bounds of the model *)

MaxFrags == 3      \* a generated text is at most this many fragments
MaxRows == 3       \* a generated column has at most this many cells
MaxTop == 2        \* topN ranges over 0..MaxTop and the script's 10

-----------------------------------------------------------------------------
(* Python str *)

UpperCase == << "A","B","C","D","E","F","G","H","I","J","K","L","M",
                "N","O","P","Q","R","S","T","U","V","W","X","Y","Z" >>
LowerCase == << "a","b","c","d","e","f","g","h","i","j","k","l","m",
                "n","o","p","q","r","s","t","u","v","w","x","y","z" >>

LowerChar(c) ==
    IF \E i \in 1..Len(UpperCase) : UpperCase[i] = c
    THEN LowerCase[CHOOSE i \in 1..Len(UpperCase) : UpperCase[i] = c]
    ELSE c

\* str.lower()
Lower(s) == [i \in 1..Len(s) |-> LowerChar(s[i])]

Whitespace == { " ", "\t", "\n", "\r" }

RECURSIVE LStrip(_)
LStrip(s) ==
    IF s # << >> /\ Head(s) \in Whitespace THEN LStrip(Tail(s)) ELSE s

RECURSIVE RStrip(_)
RStrip(s) ==
    IF s # << >> /\ s[Len(s)] \in Whitespace
    THEN RStrip(SubSeq(s, 1, Len(s) - 1))
    ELSE s

\* str.strip()
Strip(s) == RStrip(LStrip(s))

\* `k in text` on two str
Contains(text, k) ==
    \E i \in 0..(Len(text) - Len(k)) : SubSeq(text, i + 1, i + Len(k)) = k

\* sep.join(list)
RECURSIVE Join(_, _)
Join(sep, list) ==
    IF list = << >> THEN << >>
    ELSE IF Len(list) = 1 THEN list[1]
    ELSE list[1] \o sep \o Join(sep, Tail(list))

NaN == [na |-> TRUE, v |-> << >>]
Cell(s) == [na |-> FALSE, v |-> s]

\* str(x) of a cell: str(float('nan')) is 'nan'
Str(cell) == IF cell.na THEN << "n","a","n" >> ELSE cell.v

-----------------------------------------------------------------------------
(* The two vocabularies *)

skills_default ==
    << <<"P","y","t","h","o","n">>,
       <<"S","Q","L">>,
       <<"R">>,
       <<"E","x","c","e","l">>,
       <<"P","o","w","e","r"," ","B","I">>,
       <<"T","a","b","l","e","a","u">>,
       <<"A","W","S">>,
       <<"A","z","u","r","e">>,
       <<"S","p","a","r","k">>,
       <<"T","e","n","s","o","r","F","l","o","w">>,
       <<"s","c","i","k","i","t","-","l","e","a","r","n">> >>

skills_upload ==
    << <<"p","y","t","h","o","n">>,
       <<"s","q","l">>,
       <<"e","x","c","e","l">>,
       <<"p","o","w","e","r"," ","b","i">>,
       <<"t","a","b","l","e","a","u">>,
       <<"r">>,
       <<"a","w","s">>,
       <<"m","a","c","h","i","n","e"," ","l","e","a","r","n","i","n","g">>,
       <<"d","e","e","p"," ","l","e","a","r","n","i","n","g">>,
       <<"p","a","n","d","a","s">>,
       <<"n","u","m","p","y">> >>

\* a slip: the text is not lowercased before the keywords are looked up
extract_skills_nolower(vocabulary, text) ==
    LET t == Str(text) IN
    SelectSeq(vocabulary, LAMBDA skill : Contains(t, Lower(skill)))

\* extract_skills of the default pipeline; vocabulary is the global skills:
\* [skill for skill in skills if skill.lower() in text]
extract_skills(vocabulary, text) ==
    LET t == Lower(Str(text)) IN
    SelectSeq(vocabulary, LAMBDA skill : Contains(t, Lower(skill)))

\* extract_skills of the upload pipeline; vocabulary is the global skills:
\* [skill for skill in skills if skill in text]
extract_skills_upload(vocabulary, text) ==
    LET t == Lower(Str(text)) IN
    SelectSeq(vocabulary, LAMBDA skill : Contains(t, skill))

-----------------------------------------------------------------------------
(* Seniority *)

S_intern == <<"i","n","t","e","r","n">>
S_junior == <<"j","u","n","i","o","r">>
S_senior == <<"s","e","n","i","o","r">>
S_lead == <<"l","e","a","d">>
S_principal == <<"p","r","i","n","c","i","p","a","l">>

SeniorityLabels == { "Intern", "Junior", "Senior", "Lead", "Mid" }

\* a slip: "senior" is tested before "intern"
get_seniority_senior_first(title) ==
    LET t == Lower(Str(title)) IN
    IF Contains(t, S_senior) THEN "Senior"
    ELSE IF Contains(t, S_intern) THEN "Intern"
    ELSE IF Contains(t, S_junior) THEN "Junior"
    ELSE IF Contains(t, S_lead) \/ Contains(t, S_principal) THEN "Lead"
    ELSE "Mid"

get_seniority(title) ==
    LET t == Lower(Str(title)) IN
    IF Contains(t, S_intern) THEN "Intern"
    ELSE IF Contains(t, S_junior) THEN "Junior"
    ELSE IF Contains(t, S_senior) THEN "Senior"
    ELSE IF Contains(t, S_lead) \/ Contains(t, S_principal) THEN "Lead"
    ELSE "Mid"

-----------------------------------------------------------------------------
(* Counting.  A frequency table is a sequence of [key, count] entries.     *)

\* the values of seq in the order of their first appearance
RECURSIVE FirstSeen(_)
FirstSeen(seq) ==
    IF seq = << >> THEN << >>
    ELSE LET front == FirstSeen(SubSeq(seq, 1, Len(seq) - 1))
             x == seq[Len(seq)]
         IN IF \E i \in 1..Len(front) : front[i] = x THEN front
            ELSE Append(front, x)

Occurrences(seq, x) == Cardinality({ i \in 1..Len(seq) : seq[i] = x })

\* collections.Counter(list): a dict, so its keys are in insertion order
Counter(list) ==
    LET keys == FirstSeen(list) IN
    [i \in 1..Len(keys) |-> [key |-> keys[i], count |-> Occurrences(list, keys[i])]]

\* a slip: the table is left in first-seen order
Unsorted(table) == table

\* sorted(table, key=count, reverse=True): stable, so entries of equal count
\* keep the order they had
RECURSIVE SortDescending(_)
SortDescending(table) ==
    IF table = << >> THEN << >>
    ELSE LET front == SortDescending(SubSeq(table, 1, Len(table) - 1))
             e == table[Len(table)]
             k == Cardinality({ i \in 1..Len(front) : front[i].count >= e.count })
         IN SubSeq(front, 1, k) \o << e >> \o SubSeq(front, k + 1, Len(front))

\* Counter.most_common()
most_common(counter) == SortDescending(counter)

\* pd.Series(list): every element is a value, none is missing
Series(list) == [i \in 1..Len(list) |-> Cell(list[i])]

\* Series.value_counts(): missing cells are dropped (dropna=True), the rest
\* are counted and sorted by descending count, ties in first-seen order
value_counts(column) ==
    LET present == SelectSeq(column, LAMBDA c : ~c.na)
        values == [i \in 1..Len(present) |-> present[i].v]
    IN SortDescending(Counter(values))

\* a slip: the last n entries instead of the first n
tail(table, n) ==
    SubSeq(table, Len(table) - (IF n < Len(table) THEN n ELSE Len(table)) + 1,
           Len(table))

\* Series.head(n), n >= 0
head(table, n) == SubSeq(table, 1, IF n < Len(table) THEN n ELSE Len(table))

\* Series.nlargest(n), keep='first': the n largest, in descending order,
\* equal counts in the order of the series
nlargest(table, n) ==
    LET s == SortDescending(table) IN
    SubSeq(s, 1, IF n < Len(s) THEN n ELSE Len(s))

\* the 10 of head(10) and nlargest(10)
TopN == 10

\* [skill for sublist in df['Skills'] for skill in sublist]
RECURSIVE flat_skills(_)
flat_skills(column) ==
    IF column = << >> THEN << >>
    ELSE Head(column) \o flat_skills(Tail(column))

\* sum(df['skills'], [])
RECURSIVE all_skills(_)
all_skills(column) ==
    IF column = << >> THEN << >>
    ELSE all_skills(SubSeq(column, 1, Len(column) - 1)) \o column[Len(column)]

\* df['description'].apply(extract_skills), default pipeline
apply_extract_skills(vocabulary, column) ==
    [i \in 1..Len(column) |-> extract_skills(vocabulary, column[i])]

\* df['description'].apply(extract_skills), upload pipeline
apply_extract_skills_upload(vocabulary, column) ==
    [i \in 1..Len(column) |-> extract_skills_upload(vocabulary, column[i])]

\* pd.Series(flat_skills).value_counts()
skill_freq(matches) == value_counts(Series(flat_skills(matches)))

\* Counter(all_skills).most_common(), the rows of top_skills
top_skills(matches) == most_common(Counter(all_skills(matches)))

-----------------------------------------------------------------------------
(* The pure functions, applied to generated inputs *)

RECURSIVE Concat(_)
Concat(seqs) == IF seqs = << >> THEN << >> ELSE Head(seqs) \o Concat(Tail(seqs))

\* the texts made of at most MaxFrags fragments
Texts(fragments) ==
    { Concat(f) : f \in UNION { [1..n -> fragments] : n \in 0..MaxFrags } }

\* the columns of at most MaxRows cells
ColumnsOf(cells) == UNION { [1..n -> cells] : n \in 0..MaxRows }

DescriptionFragments ==
    { <<"P","y","t","h","o","n">>, <<"s","q","l">>, <<"R">>, <<"S","p","a","r","k">>, <<"P","o","w","e","r"," ","B","I">>, <<"D","e","e","p"," ","L","e","a","r","n","i","n","g">>, << " " >>, << "x" >> }

TitleFragments ==
    { <<"S","e","n","i","o","r">>, <<"I","n","t","e","r","n">>, <<"j","u","n","i","o","r">>, <<"L","e","a","d">>, <<"P","R","I","N","C","I","P","A","L">>, <<"D","a","t","a">>, << " " >>, << "/" >> }

DescriptionCells ==
    { Cell(<<"s","q","l">>), Cell(<<"I"," ","k","n","o","w"," ","P","y","t","h","o","n"," ","a","n","d"," ","S","Q","L">>), Cell(<<"S","p","a","r","k">>), Cell(<< >>) }

ValueCells == { Cell(<< "A" >>), Cell(<< "B" >>), Cell(<< "C" >>), NaN }

TopNs == (0..MaxTop) \cup { TopN }

Pipelines == { "default", "upload" }

NoCall == [fn |-> "none", pipeline |-> "default", cell |-> NaN, column |-> << >>, n |-> 0]

Calls ==
    { [NoCall EXCEPT !.fn = "extract_skills", !.pipeline = p, !.cell = c] :
        p \in Pipelines,
        c \in { Cell(t) : t \in Texts(DescriptionFragments) } \cup { NaN } }
    \cup
    { [NoCall EXCEPT !.fn = "get_seniority", !.cell = c] :
        c \in { Cell(t) : t \in Texts(TitleFragments) } \cup { NaN } }
    \cup
    { [NoCall EXCEPT !.fn = "skill_freq", !.pipeline = p, !.column = col] :
        p \in Pipelines, col \in ColumnsOf(DescriptionCells) }
    \cup
    { [NoCall EXCEPT !.fn = "value_counts", !.column = col] :
        col \in ColumnsOf(ValueCells) }
    \cup
    { [NoCall EXCEPT !.fn = f, !.column = col, !.n = n] :
        f \in { "head", "nlargest" }, col \in ColumnsOf(ValueCells), n \in TopNs }

NoFile == [exists |-> FALSE, header |-> {}, rows |-> << >>]
NoTable == [columns |-> {}, rows |-> << >>]
NoAbout == [kind |-> "none", text |-> << >>]

Features == { "skills", "titles", "seniority", "work_type", "employment_type" }

\* no chart has been drawn
NoCharts == [c \in Pipelines \X Features |-> [shown |-> FALSE, table |-> << >>]]

NoRun == [ran |-> FALSE, charts |-> NoCharts]

\* the script is not running
PipelineIdle ==
    /\ jobs_csv = NoFile
    /\ uploaded_file = NoFile
    /\ pc = "idle"
    /\ df = NoTable
    /\ skills = << >>
    /\ sample_desc = << >>
    /\ button = FALSE
    /\ charts = NoCharts
    /\ messages = {}
    /\ about = NoAbout
    /\ prev = NoRun

InitFn ==
    /\ PipelineIdle
    /\ call \in Calls
    /\ ret = << >>
    /\ pcall = "ready"

CallExtractSkills ==
    /\ pcall = "ready"
    /\ call.fn = "extract_skills"
    /\ ret' = IF call.pipeline = "default"
              THEN extract_skills(skills_default, call.cell)
              ELSE extract_skills_upload(skills_upload, call.cell)
    /\ pcall' = "done"
    /\ UNCHANGED << call, pipelineVars >>

CallGetSeniority ==
    /\ pcall = "ready"
    /\ call.fn = "get_seniority"
    /\ ret' = get_seniority(call.cell)
    /\ pcall' = "done"
    /\ UNCHANGED << call, pipelineVars >>

CallSkillFreq ==
    /\ pcall = "ready"
    /\ call.fn = "skill_freq"
    /\ ret' = IF call.pipeline = "default"
              THEN LET m == apply_extract_skills(skills_default, call.column)
                   IN [matches |-> m, table |-> skill_freq(m)]
              ELSE LET m == apply_extract_skills_upload(skills_upload, call.column)
                   IN [matches |-> m, table |-> top_skills(m)]
    /\ pcall' = "done"
    /\ UNCHANGED << call, pipelineVars >>

CallValueCounts ==
    /\ pcall = "ready"
    /\ call.fn \in { "value_counts", "head", "nlargest" }
    /\ ret' = IF call.fn = "head" THEN head(value_counts(call.column), call.n)
              ELSE IF call.fn = "nlargest"
                   THEN nlargest(value_counts(call.column), call.n)
                   ELSE value_counts(call.column)
    /\ pcall' = "done"
    /\ UNCHANGED << call, pipelineVars >>

NextFn ==
    \/ CallExtractSkills
    \/ CallGetSeniority
    \/ CallSkillFreq
    \/ CallValueCounts

SpecFn == InitFn /\ [][NextFn]_vars

-----------------------------------------------------------------------------
(* Properties of the pure functions *)

Range(seq) == { seq[i] : i \in 1..Len(seq) }

NoRepeats(seq) == \A i, j \in 1..Len(seq) : i # j => seq[i] # seq[j]

IndexIn(seq, x) == CHOOSE i \in 1..Len(seq) : seq[i] = x

\* seq lists elements of vocabulary, in the order of vocabulary
InOrderOf(vocabulary, seq) ==
    /\ Range(seq) \subseteq Range(vocabulary)
    /\ \A i, j \in 1..Len(seq) :
          i < j => IndexIn(vocabulary, seq[i]) < IndexIn(vocabulary, seq[j])

VocabularyOf(pipeline) ==
    IF pipeline = "default" THEN skills_default ELSE skills_upload

Extracted == pcall = "done" /\ call.fn = "extract_skills"

\* C1, as stated: extract_skills(T) returns exactly the keywords of V that
\* occur, as they are spelled in V, as a substring of the lowercased T, each
\* at most once and in vocabulary order.
C1_AsStated ==
    Extracted =>
        LET V == VocabularyOf(call.pipeline)
            T == Lower(Str(call.cell))
        IN /\ InOrderOf(V, ret)
           /\ NoRepeats(ret)
           /\ \A k \in Range(V) : k \in Range(ret) <=> Contains(T, k)

\* C1, amended: extract_skills(T) returns exactly the keywords of V whose
\* lowercased spelling occurs as a substring of the lowercased T (no word
\* boundary is looked for), each at most once, spelled as in V and in
\* vocabulary order; it returns nothing that is not in V.
C1_ExtractSkills ==
    Extracted =>
        LET V == VocabularyOf(call.pipeline)
            T == Lower(Str(call.cell))
        IN /\ InOrderOf(V, ret)
           /\ NoRepeats(ret)
           /\ \A k \in Range(V) : k \in Range(ret) <=> Contains(T, Lower(k))

\* the default pipeline finds "R" inside "Spark", and "Spark" itself
C1_Witness ==
    /\ Extracted
    /\ call.pipeline = "default"
    /\ call.cell = Cell(<<"S","p","a","r","k">>)
    /\ ret = << <<"R">>, <<"S","p","a","r","k">> >>

Classified == pcall = "done" /\ call.fn = "get_seniority"

\* what C2 says of a title, with or without its closing example
SeniorityRule(junior_with_lead) ==
    LET t == Lower(Str(call.cell))
        intern == Contains(t, S_intern)
        junior == Contains(t, S_junior)
        senior == Contains(t, S_senior)
        lead == Contains(t, S_lead) \/ Contains(t, S_principal)
    IN /\ ret \in SeniorityLabels
       /\ ret = "Intern" <=> intern
       /\ ret = "Junior" <=> (~intern /\ junior)
       /\ ret = "Senior" <=> (~intern /\ ~junior /\ senior)
       /\ ret = "Lead" <=> (~intern /\ ~junior /\ ~senior /\ lead)
       /\ ret = "Mid" <=> (~intern /\ ~junior /\ ~senior /\ ~lead)
       /\ (senior /\ intern) => ret = "Intern"
       /\ (junior /\ lead /\ (junior_with_lead \/ ~intern)) => ret = "Junior"

\* C2, as stated: get_seniority returns one label of {Intern, Junior, Senior,
\* Lead, Mid}, the one of the first test that succeeds on the lowercased
\* title in the order intern, junior, senior, lead-or-principal, and Mid when
\* none does; so a title with "senior" and "intern" is Intern and a title
\* with "junior" and "lead" is Junior.
C2_AsStated == Classified => SeniorityRule(TRUE)

\* C2, amended: the same, except that a title with "junior" and "lead" is
\* Junior when it does not also contain "intern" (then it is Intern).
C2_GetSeniority == Classified => SeniorityRule(FALSE)

\* a title with "junior" and "lead" and no "intern" has been labelled Junior,
\* although "lead" comes first in it
C2_Witness ==
    /\ Classified
    /\ ~call.cell.na
    /\ Len(call.cell.v) > Len(S_lead)
    /\ SubSeq(Lower(call.cell.v), 1, Len(S_lead)) = S_lead
    /\ Contains(Lower(call.cell.v), S_junior)
    /\ ~Contains(Lower(call.cell.v), S_intern)
    /\ ret = "Junior"

RECURSIVE SumOfCounts(_)
SumOfCounts(table) ==
    IF table = << >> THEN 0 ELSE Head(table).count + SumOfCounts(Tail(table))

RECURSIVE SumOfLengths(_)
SumOfLengths(lists) ==
    IF lists = << >> THEN 0 ELSE Len(Head(lists)) + SumOfLengths(Tail(lists))

NonIncreasing(table) ==
    \A i \in 1..(Len(table) - 1) : table[i].count >= table[i + 1].count

Keys(table) == { table[i].key : i \in 1..Len(table) }

DistinctKeys(table) ==
    \A i, j \in 1..Len(table) : i # j => table[i].key # table[j].key

Aggregated == pcall = "done" /\ call.fn = "skill_freq"

\* C6: the skill frequency table of either pipeline maps each skill matched
\* at least once to the number of postings whose match set contains it, has
\* no entry of count zero, has counts that sum to the total number of matches
\* and is ordered by non-increasing count.
C6_SkillFrequency ==
    Aggregated =>
        LET M == ret.matches
            T == ret.table
        IN /\ Keys(T) = UNION { Range(M[p]) : p \in 1..Len(M) }
           /\ DistinctKeys(T)
           /\ \A i \in 1..Len(T) :
                 /\ T[i].count > 0
                 /\ T[i].count =
                       Cardinality({ p \in 1..Len(M) : T[i].key \in Range(M[p]) })
           /\ SumOfCounts(T) = SumOfLengths(M)
           /\ NonIncreasing(T)

\* a table whose most frequent skill was not the first one seen, built from
\* postings of which one matched nothing
C6_Witness ==
    /\ Aggregated
    /\ Len(ret.table) >= 2
    /\ ret.table[1].count > ret.table[2].count
    /\ ret.matches[1] # << >>
    /\ ret.table[1].key # ret.matches[1][1]
    /\ \E p \in 1..Len(ret.matches) : ret.matches[p] = << >>

Counted == pcall = "done" /\ call.fn \in { "value_counts", "head", "nlargest" }

ValuesOf(column) == { column[i].v : i \in { j \in 1..Len(column) : ~column[j].na } }

TimesIn(column, v) ==
    Cardinality({ i \in 1..Len(column) : ~column[i].na /\ column[i].v = v })

\* C8: the categorical counter maps each distinct value to its number of
\* occurrences; with topN it returns min(topN, number of distinct values)
\* entries, ordered by non-increasing count, and no omitted value has a
\* count greater than that of a returned entry.
C8_ValueCounts ==
    Counted =>
        LET col == call.column
            distinct == ValuesOf(col)
        IN /\ Keys(ret) \subseteq distinct
           /\ DistinctKeys(ret)
           /\ \A i \in 1..Len(ret) : ret[i].count = TimesIn(col, ret[i].key)
           /\ NonIncreasing(ret)
           /\ call.fn = "value_counts" => Keys(ret) = distinct
           /\ call.fn # "value_counts" =>
                 /\ Len(ret) = IF call.n < Cardinality(distinct)
                               THEN call.n ELSE Cardinality(distinct)
                 /\ \A v \in distinct \ Keys(ret) :
                       \A i \in 1..Len(ret) : TimesIn(col, v) <= ret[i].count

\* head(n) has cut a table of more than n values, keeping a value seen twice
\* and dropping one that was seen before it
C8_Witness ==
    /\ Counted
    /\ call.fn = "head"
    /\ call.n = 1
    /\ Cardinality(ValuesOf(call.column)) > 1
    /\ ret # << >>
    /\ ret[1].count = 2
    /\ ~call.column[1].na
    /\ call.column[1].v # ret[1].key

-----------------------------------------------------------------------------
(* Datasets *)

\* the column names the script looks up
C_description == <<"d","e","s","c","r","i","p","t","i","o","n">>
C_title == <<"t","i","t","l","e">>
C_work_type == <<"w","o","r","k","_","t","y","p","e">>
C_employment_type == <<"e","m","p","l","o","y","m","e","n","t","_","t","y","p","e">>

\* the header names as a file spells them
H_description == <<" ","D","e","s","c","r","i","p","t","i","o","n">>
H_title == <<"T","i","t","l","e">>
H_work_type == <<"w","o","r","k","_","t","y","p","e"," ">>
H_employment_type == <<"E","m","p","l","o","y","m","e","n","t","_","T","y","p","e">>

Headers == { H_description, H_title, H_work_type, H_employment_type }

Posting(d, t, w, e) ==
    (H_description :> d) @@ (H_title :> t) @@ (H_work_type :> w)
        @@ (H_employment_type :> e)

Posting1 == Posting(NaN, Cell(<<"S","e","n","i","o","r"," ","I","n","t","e","r","n">>), Cell(<<"R","e","m","o","t","e">>), Cell(<<"F","u","l","l","-","t","i","m","e">>))
Posting2 == Posting(Cell(<<"I"," ","k","n","o","w"," ","P","y","t","h","o","n"," ","a","n","d"," ","S","Q","L">>), Cell(<<"D","a","t","a"," ","A","n","a","l","y","s","t">>),
                    Cell(<<"H","y","b","r","i","d">>), Cell(<<"F","u","l","l","-","t","i","m","e">>))
Posting3 == Posting(Cell(<<"S","p","a","r","k">>), NaN, Cell(<<"R","e","m","o","t","e">>), Cell(<<"C","o","n","t","r","a","c","t">>))

RowLists == { << Posting1, Posting2 >>, << Posting2, Posting3, Posting2, Posting1 >> }

\* a file with the columns of header
FileOf(header, rows) ==
    [exists |-> TRUE, header |-> header,
     rows |-> [i \in 1..Len(rows) |-> [h \in header |-> rows[i][h]]]]

Files == { FileOf(h, r) : h \in SUBSET Headers, r \in RowLists }

\* pd.read_csv(file) of a file that exists
read_csv(file) == [columns |-> file.header, rows |-> file.rows]

\* df.columns = df.columns.str.strip().str.lower()
NormalizeColumns(table) ==
    LET names == { Lower(Strip(h)) : h \in table.columns }
        Raw(c) == CHOOSE h \in table.columns : Lower(Strip(h)) = c
    IN [columns |-> names,
        rows |-> [i \in 1..Len(table.rows) |->
                     [c \in names |-> table.rows[i][Raw(c)]]]]

\* a slip: the guard does not look at the column
HasColumnAlways(table, c) == TRUE

\* 'c' in df.columns
HasColumn(table, c) == c \in table.columns

\* df[c]
Column(table, c) == [i \in 1..Len(table.rows) |-> table.rows[i][c]]

\* df[c] = values
WithColumn(table, c, values) ==
    [columns |-> table.columns \cup { c },
     rows |-> [i \in 1..Len(table.rows) |->
                  [k \in table.columns \cup { c } |->
                      IF k = c THEN values[i] ELSE table.rows[i][k]]]]

\* a slip: the missing cells are left as they are
fillna_nothing(column) == column

\* Series.fillna('')
fillna(column) ==
    [i \in 1..Len(column) |-> IF column[i].na THEN Cell(<< >>) ELSE column[i]]

-----------------------------------------------------------------------------
(* The About Me handler *)

Prefix == "\nI am a data professional with strong experience in tools and technologies such as "
Suffix == ".\nI'm passionate about applying data science to solve real-world problems, and I strive to bring business value using analytical insights.\n            "

\* the f-string: the boilerplate around the joined skills
Template(listed) == << Prefix >> \o listed \o << Suffix >>

CommaSpace == << ",", " " >>

\* a slip: the text is tested without strip()
GenerateSummaryNoStrip(vocabulary, text) ==
    IF text # << >>
    THEN [kind |-> "summary",
          text |-> Template(Join(CommaSpace, extract_skills(vocabulary, Cell(text))))]
    ELSE [kind |-> "error", text |-> << >>]

\* the body of `if st.button("Generate Summary")`
GenerateSummary(vocabulary, text) ==
    IF Strip(text) # << >>
    THEN [kind |-> "summary",
          text |-> Template(Join(CommaSpace, extract_skills(vocabulary, Cell(text))))]
    ELSE [kind |-> "error", text |-> << >>]

AboutTexts ==
    { << >>, << " " >>, << "\n", " ", "\t" >>, << " ", "R", " " >>,
      <<"I"," ","k","n","o","w"," ","P","y","t","h","o","n"," ","a","n","d"," ","S","Q","L">>, <<"h","e","l","l","o">> }

-----------------------------------------------------------------------------
(* One run of the script, statement group by statement group *)

C_Skills == <<"S","k","i","l","l","s">>
C_skills == <<"s","k","i","l","l","s">>
C_seniority == <<"s","e","n","i","o","r","i","t","y">>

\* st.bar_chart(table), st.pyplot(fig): the table of feature f is drawn
Show(p, f, table) ==
    [charts EXCEPT ![<< p, f >>] = [shown |-> TRUE, table |-> table]]

\* df[c] raises KeyError when c is no column of df
KeyError(c) == c \notin df.columns

\* an exception that nothing catches ends the run
Raise ==
    /\ pc' = "aborted"
    /\ UNCHANGED << df, charts, messages >>

session == << jobs_csv, uploaded_file, sample_desc, button, prev, callVars >>

Init ==
    /\ jobs_csv \in Files \cup { NoFile }
    /\ uploaded_file \in Files \cup { NoFile }
    /\ pc = "load_default"
    /\ df = NoTable
    /\ skills = << >>
    /\ sample_desc = << >>
    /\ button = FALSE
    /\ charts = NoCharts
    /\ messages = {}
    /\ about = NoAbout
    /\ prev = NoRun
    /\ call = NoCall
    /\ ret = << >>
    /\ pcall = "idle"

\* a slip: the table of an earlier run is kept instead of being read again
LoadDefaultCached ==
    /\ pc = "load_default"
    /\ IF df # NoTable
       THEN /\ df' = df
            /\ messages' = messages \cup { "intro" }
            /\ pc' = "default_fillna"
       ELSE IF jobs_csv.exists
            THEN /\ df' = NormalizeColumns(read_csv(jobs_csv))
                 /\ messages' = messages \cup { "intro" }
                 /\ pc' = "default_fillna"
            ELSE /\ pc' = "except"
                 /\ UNCHANGED << df, messages >>
    /\ UNCHANGED << skills, charts, about, session >>

\* try: df = pd.read_csv(default_data_path); normalise the header; intro
LoadDefault ==
    /\ pc = "load_default"
    /\ IF jobs_csv.exists
       THEN /\ df' = NormalizeColumns(read_csv(jobs_csv))
            /\ messages' = messages \cup { "intro" }
            /\ pc' = "default_fillna"
       ELSE \* FileNotFoundError
            /\ pc' = "except"
            /\ UNCHANGED << df, messages >>
    /\ UNCHANGED << skills, charts, about, session >>

\* a slip: the run stops when the default file is missing
ExceptFileNotFoundStop ==
    /\ pc = "except"
    /\ messages' = messages \cup { "warn_not_found" }
    /\ pc' = "aborted"
    /\ UNCHANGED << df, skills, charts, about, session >>

\* a slip: the handler falls through to the About Me section
ExceptFileNotFoundAbout ==
    /\ pc = "except"
    /\ messages' = messages \cup { "warn_not_found" }
    /\ pc' = "about_me"
    /\ UNCHANGED << df, skills, charts, about, session >>

\* except FileNotFoundError: st.warning(...)
ExceptFileNotFound ==
    /\ pc = "except"
    /\ messages' = messages \cup { "warn_not_found" }
    /\ pc' = "uploader"
    /\ UNCHANGED << df, skills, charts, about, session >>

\* default pipeline: fill the missing descriptions
DefaultFillna ==
    /\ pc = "default_fillna"
    /\ IF HasColumn(df, C_description)
       THEN IF KeyError(C_description) THEN Raise
            ELSE /\ df' = WithColumn(df, C_description,
                                     fillna(Column(df, C_description)))
                 /\ pc' = "default_skills"
                 /\ UNCHANGED << charts, messages >>
       ELSE /\ messages' = messages \cup { "warn_description_missing_default" }
            /\ pc' = "default_skills"
            /\ UNCHANGED << df, charts >>
    /\ UNCHANGED << skills, about, session >>

\* default pipeline: skills = [...]; def extract_skills; the skill chart
\* (extract_skills reads the global skills, which was just assigned)
DefaultSkills ==
    /\ pc = "default_skills"
    /\ skills' = skills_default
    /\ IF HasColumn(df, C_description)
       THEN IF KeyError(C_description) THEN Raise
            ELSE LET m == apply_extract_skills(skills_default,
                                               Column(df, C_description))
                 IN /\ df' = WithColumn(df, C_Skills, m)
                    /\ charts' = Show("default", "skills",
                                      head(skill_freq(m), TopN))
                    /\ pc' = "default_titles"
                    /\ UNCHANGED messages
       ELSE /\ messages' = messages \cup { "warn_skills_default" }
            /\ pc' = "default_titles"
            /\ UNCHANGED << df, charts >>
    /\ UNCHANGED << about, session >>

\* default pipeline: the title chart
DefaultTitles ==
    /\ pc = "default_titles"
    /\ IF HasColumn(df, C_title)
       THEN IF KeyError(C_title) THEN Raise
            ELSE /\ charts' = Show("default", "titles",
                                   head(value_counts(Column(df, C_title)), TopN))
                 /\ pc' = "about_me"
                 /\ UNCHANGED << df, messages >>
       ELSE /\ messages' = messages \cup { "warn_title_default" }
            /\ pc' = "about_me"
            /\ UNCHANGED << df, charts >>
    /\ UNCHANGED << skills, about, session >>

\* the text area, the button and its handler; extract_skills reads the
\* global skills
AboutMe ==
    /\ pc = "about_me"
    /\ IF button
       THEN /\ about' = GenerateSummary(skills, sample_desc)
            /\ messages' = messages \cup
                  { IF about'.kind = "summary" THEN "success_about"
                    ELSE "error_empty" }
       ELSE UNCHANGED << about, messages >>
    /\ pc' = "uploader"
    /\ UNCHANGED << df, skills, charts, session >>

\* st.file_uploader; `if uploaded_file:` and its else branch, then the footer
Uploader ==
    /\ pc = "uploader"
    /\ IF uploaded_file.exists
       THEN /\ pc' = "upload_load"
            /\ UNCHANGED messages
       ELSE /\ messages' = messages \cup { "info_upload" }
            /\ pc' = "done"
    /\ UNCHANGED << df, skills, charts, about, session >>

\* df = pd.read_csv(uploaded_file); normalise the header; st.success
UploadLoad ==
    /\ pc = "upload_load"
    /\ df' = NormalizeColumns(read_csv(uploaded_file))
    /\ messages' = messages \cup { "success_loaded" }
    /\ pc' = "upload_fillna"
    /\ UNCHANGED << skills, charts, about, session >>

\* upload pipeline: fill the missing descriptions
UploadFillna ==
    /\ pc = "upload_fillna"
    /\ IF HasColumn(df, C_description)
       THEN IF KeyError(C_description) THEN Raise
            ELSE /\ df' = WithColumn(df, C_description,
                                     fillna(Column(df, C_description)))
                 /\ pc' = "upload_skills"
                 /\ UNCHANGED << charts, messages >>
       ELSE /\ messages' = messages \cup { "warn_description_missing_upload" }
            /\ pc' = "upload_skills"
            /\ UNCHANGED << df, charts >>
    /\ UNCHANGED << skills, about, session >>

\* upload pipeline: skills = [...]; def extract_skills; the skill chart
\* (extract_skills reads the global skills, which was just assigned)
UploadSkills ==
    /\ pc = "upload_skills"
    /\ skills' = skills_upload
    /\ IF HasColumn(df, C_description)
       THEN IF KeyError(C_description) THEN Raise
            ELSE LET m == apply_extract_skills_upload(skills_upload,
                                                      Column(df, C_description))
                 IN /\ df' = WithColumn(df, C_skills, m)
                    /\ charts' = Show("upload", "skills", top_skills(m))
                    /\ pc' = "upload_titles"
                    /\ UNCHANGED messages
       ELSE /\ messages' = messages \cup { "warn_skills_upload" }
            /\ pc' = "upload_titles"
            /\ UNCHANGED << df, charts >>
    /\ UNCHANGED << about, session >>

\* upload pipeline: the title chart
UploadTitles ==
    /\ pc = "upload_titles"
    /\ IF HasColumn(df, C_title)
       THEN IF KeyError(C_title) THEN Raise
            ELSE /\ charts' = Show("upload", "titles",
                                   nlargest(value_counts(Column(df, C_title)), TopN))
                 /\ pc' = "upload_seniority"
                 /\ UNCHANGED << df, messages >>
       ELSE /\ messages' = messages \cup { "warn_title_upload" }
            /\ pc' = "upload_seniority"
            /\ UNCHANGED << df, charts >>
    /\ UNCHANGED << skills, about, session >>

\* upload pipeline: def get_seniority; the seniority chart
UploadSeniority ==
    /\ pc = "upload_seniority"
    /\ IF HasColumn(df, C_title)
       THEN IF KeyError(C_title) THEN Raise
            ELSE LET title == Column(df, C_title)
                     labels == [i \in 1..Len(title) |-> Cell(get_seniority(title[i]))]
                 IN /\ df' = WithColumn(df, C_seniority, labels)
                    /\ charts' = Show("upload", "seniority", value_counts(labels))
                    /\ pc' = "upload_work_type"
                    /\ UNCHANGED messages
       ELSE /\ messages' = messages \cup { "warn_seniority" }
            /\ pc' = "upload_work_type"
            /\ UNCHANGED << df, charts >>
    /\ UNCHANGED << skills, about, session >>

\* upload pipeline: the work type chart
UploadWorkType ==
    /\ pc = "upload_work_type"
    /\ IF HasColumn(df, C_work_type)
       THEN IF KeyError(C_work_type) THEN Raise
            ELSE /\ charts' = Show("upload", "work_type",
                                   value_counts(Column(df, C_work_type)))
                 /\ pc' = "upload_employment_type"
                 /\ UNCHANGED << df, messages >>
       ELSE /\ messages' = messages \cup { "warn_work_type" }
            /\ pc' = "upload_employment_type"
            /\ UNCHANGED << df, charts >>
    /\ UNCHANGED << skills, about, session >>

\* upload pipeline: the employment type chart, then the footer
UploadEmploymentType ==
    /\ pc = "upload_employment_type"
    /\ IF HasColumn(df, C_employment_type)
       THEN IF KeyError(C_employment_type) THEN Raise
            ELSE /\ charts' = Show("upload", "employment_type",
                                   value_counts(Column(df, C_employment_type)))
                 /\ pc' = "done"
                 /\ UNCHANGED << df, messages >>
       ELSE /\ messages' = messages \cup { "warn_employment_type" }
            /\ pc' = "done"
            /\ UNCHANGED << df, charts >>
    /\ UNCHANGED << skills, about, session >>

\* one statement group of the script
Step ==
    \/ LoadDefault
    \/ ExceptFileNotFound
    \/ DefaultFillna
    \/ DefaultSkills
    \/ DefaultTitles
    \/ AboutMe
    \/ Uploader
    \/ UploadLoad
    \/ UploadFillna
    \/ UploadSkills
    \/ UploadTitles
    \/ UploadSeniority
    \/ UploadWorkType
    \/ UploadEmploymentType

\* the user touches a widget and the script runs again from the top, on the
\* same files.  The page is cleared; the globals df and skills are left as
\* the last run set them, which the script never relies on: each is assigned
\* before it is read.
Rerun ==
    /\ pc \in { "done", "aborted" }
    /\ \E text \in AboutTexts, pressed \in BOOLEAN :
          /\ sample_desc' = text
          /\ button' = pressed
    /\ prev' = [ran |-> TRUE, charts |-> charts]
    /\ charts' = NoCharts
    /\ messages' = {}
    /\ about' = NoAbout
    /\ pc' = "load_default"
    /\ UNCHANGED << jobs_csv, uploaded_file, df, skills, callVars >>

Next == Step \/ Rerun

Spec == Init /\ [][Next]_vars

-----------------------------------------------------------------------------
(* Properties of a run *)

FileOfPipeline(p) == IF p = "default" THEN jobs_csv ELSE uploaded_file

\* the column a feature reads
FeatureColumn(f) ==
    CASE f = "skills" -> C_description
      [] f = "titles" -> C_title
      [] f = "seniority" -> C_title
      [] f = "work_type" -> C_work_type
      [] f = "employment_type" -> C_employment_type

\* the file of pipeline p has the column of feature f
Present(p, f) ==
    \E h \in FileOfPipeline(p).header : Lower(Strip(h)) = FeatureColumn(f)

\* the warning shown when pipeline p skips feature f
WarningOf(p, f) ==
    IF p = "default"
    THEN CASE f = "skills" -> "warn_skills_default"
           [] f = "titles" -> "warn_title_default"
           [] OTHER -> "no such warning"
    ELSE CASE f = "skills" -> "warn_skills_upload"
           [] f = "titles" -> "warn_title_upload"
           [] f = "seniority" -> "warn_seniority"
           [] f = "work_type" -> "warn_work_type"
           [] f = "employment_type" -> "warn_employment_type"

\* the features pipeline p has
FeaturesOf(p) == IF p = "default" THEN { "skills", "titles" } ELSE Features

\* feature f of pipeline p came out as its column says
Guarded(p, f) ==
    IF Present(p, f)
    THEN charts[<< p, f >>].shown /\ WarningOf(p, f) \notin messages
    ELSE ~charts[<< p, f >>].shown /\ WarningOf(p, f) \in messages

\* C3, as stated: in a run of either pipeline over a loaded dataset each of
\* the five features (skills, titles, seniority, work type, employment type)
\* produces its table when its column is present and is skipped with a
\* warning when it is absent, and the run reaches its end.
C3_AsStated ==
    /\ pc # "aborted"
    /\ pc = "done" =>
          \A p \in Pipelines : FileOfPipeline(p).exists =>
              \A f \in Features : Guarded(p, f)

\* C3, amended: each feature a pipeline has (the upload pipeline: all five;
\* the default pipeline: skills and titles only) produces its table when its
\* column is present and is skipped with a warning when it is absent,
\* whatever the other columns are; the default pipeline never produces a
\* seniority, work type or employment type table; the run never aborts and
\* reaches its end.
C3_ColumnGuards ==
    /\ pc # "aborted"
    /\ pc = "done" =>
          \A p \in Pipelines : FileOfPipeline(p).exists =>
              \A f \in FeaturesOf(p) : Guarded(p, f)
    /\ \A f \in Features \ FeaturesOf("default") :
          ~charts[<< "default", f >>].shown

\* a finished run in which the default file had no description and the
\* uploaded file had a title but no work type
C3_Witness ==
    /\ pc = "done"
    /\ jobs_csv.exists /\ uploaded_file.exists
    /\ ~Present("default", "skills") /\ Present("default", "titles")
    /\ "warn_skills_default" \in messages
    /\ charts[<< "default", "titles" >>].shown
    /\ Present("upload", "seniority") /\ ~Present("upload", "work_type")
    /\ charts[<< "upload", "seniority" >>].table # << >>
    /\ "warn_work_type" \in messages

UploadPhase ==
    { "uploader", "upload_load", "upload_fillna", "upload_skills",
      "upload_titles", "upload_seniority", "upload_work_type",
      "upload_employment_type", "done" }

\* C4: the default path is tried before the upload is examined; when the
\* default file is absent the run does not abort: it shows the upload
\* prompt and goes on to the upload step, where the tables are produced
\* (each under its column guard) if and only if a file has been uploaded,
\* and otherwise the informational prompt is shown.
C4_DefaultThenUpload ==
    /\ pc \in UploadPhase =>
          IF jobs_csv.exists THEN "intro" \in messages
          ELSE "warn_not_found" \in messages
    /\ ( \/ "success_loaded" \in messages
         \/ "info_upload" \in messages
         \/ \E f \in Features : charts[<< "upload", f >>].shown )
          => pc \in UploadPhase
    /\ ~jobs_csv.exists =>
          /\ pc # "aborted"
          /\ \A f \in Features : ~charts[<< "default", f >>].shown
          /\ pc = "done" =>
                IF uploaded_file.exists
                THEN /\ "info_upload" \notin messages
                     /\ "success_loaded" \in messages
                     /\ \A f \in Features : Guarded("upload", f)
                ELSE /\ "info_upload" \in messages
                     /\ "success_loaded" \notin messages
                     /\ \A f \in Features : ~charts[<< "upload", f >>].shown

\* a run without the default file that ended with the uploaded file's charts
C4_Witness ==
    /\ pc = "done"
    /\ ~jobs_csv.exists
    /\ uploaded_file.exists
    /\ "warn_not_found" \in messages
    /\ charts[<< "upload", "skills" >>].table # << >>
    /\ charts[<< "upload", "employment_type" >>].shown

\* the About Me section of this run is behind the script
Handled == jobs_csv.exists /\ pc \in UploadPhase

OnlyWhitespace(text) == \A i \in 1..Len(text) : text[i] \in Whitespace

\* C5: the button pressed on an empty or whitespace-only text signals the
\* EmptyInput error and produces no summary; pressed on any other text it
\* produces the template around extract_skills(text), comma-joined in
\* vocabulary order, and no error, also when nothing matches.
C5_GenerateSummary ==
    Handled =>
        IF ~button THEN about = NoAbout
        ELSE IF OnlyWhitespace(sample_desc)
        THEN /\ about = [kind |-> "error", text |-> << >>]
             /\ "error_empty" \in messages
             /\ "success_about" \notin messages
        ELSE /\ about.kind = "summary"
             /\ about.text =
                   << Prefix >>
                   \o Join(CommaSpace, extract_skills(skills_default, Cell(sample_desc)))
                   \o << Suffix >>
             /\ "success_about" \in messages
             /\ "error_empty" \notin messages

\* the button was pressed on a text of whitespace and the error was shown
C5_Witness ==
    /\ Handled
    /\ button
    /\ sample_desc # << >>
    /\ OnlyWhitespace(sample_desc)
    /\ about.kind = "error"

\* C7: a second run on the unchanged files ends with the same frequency
\* tables as the run before it, tied entries in the same order.
C7_Idempotent ==
    (pc = "done" /\ prev.ran) => charts = prev.charts

\* a second run has ended, with charts of both pipelines and a tie in one
C7_Witness ==
    /\ pc = "done"
    /\ prev.ran
    /\ charts[<< "default", "skills" >>].table # << >>
    /\ Len(charts[<< "upload", "titles" >>].table) >= 2
    /\ charts[<< "upload", "titles" >>].table[1].count
          = charts[<< "upload", "titles" >>].table[2].count
    /\ jobs_csv # uploaded_file

\* row i of the file of pipeline p has no description
MissingDescription(p, i) ==
    LET file == FileOfPipeline(p)
        h == CHOOSE x \in file.header : Lower(Strip(x)) = C_description
    IN file.rows[i][h].na

\* pipeline p is about to extract the skills of a table that has descriptions
BeforeExtraction(p) ==
    /\ pc = (IF p = "default" THEN "default_skills" ELSE "upload_skills")
    /\ Present(p, "skills")

\* pipeline p has just extracted them
AfterExtraction(p) ==
    /\ pc = (IF p = "default" THEN "default_titles" ELSE "upload_titles")
    /\ Present(p, "skills")

SkillsColumn(p) == IF p = "default" THEN C_Skills ELSE C_skills

\* C9: in both pipelines, when the description column exists, every missing
\* description is the empty string by the time the skills are extracted; such
\* a posting gets an empty match set, adds nothing to the skill frequency
\* table, and the run does not abort.
C9_MissingDescriptions ==
    /\ pc # "aborted"
    /\ \A p \in Pipelines :
          /\ BeforeExtraction(p) =>
                \A i \in 1..Len(df.rows) :
                    /\ ~df.rows[i][C_description].na
                    /\ MissingDescription(p, i) =>
                          df.rows[i][C_description] = Cell(<< >>)
          /\ AfterExtraction(p) =>
                /\ \A i \in 1..Len(df.rows) :
                      MissingDescription(p, i) =>
                          df.rows[i][SkillsColumn(p)] = << >>
                /\ charts[<< p, "skills" >>].shown
                /\ SumOfCounts(charts[<< p, "skills" >>].table)
                      = SumOfLengths(Column(df, SkillsColumn(p)))

\* the upload pipeline has extracted the skills of a file one of whose
\* postings has no description
C9_Witness ==
    /\ AfterExtraction("upload")
    /\ \E i \in 1..Len(df.rows) :
          MissingDescription("upload", i) /\ df.rows[i][C_skills] = << >>
    /\ charts[<< "upload", "skills" >>].table # << >>

\* C10: the About Me handler runs only in a run that loaded the default
\* dataset: without the default file no summary and no EmptyInput error is
\* ever produced, whatever the text, the button and the upload; and a
\* summary always lists the default pipeline's vocabulary.
C10_AboutMeReachability ==
    /\ ~jobs_csv.exists =>
          /\ pc # "about_me"
          /\ about = NoAbout
          /\ "success_about" \notin messages
          /\ "error_empty" \notin messages
    /\ pc = "about_me" => skills = skills_default
    /\ about.kind = "summary" =>
          LET text == Lower(sample_desc)
              listed == SelectSeq(skills_default,
                                  LAMBDA k : Contains(text, Lower(k)))
          IN about.text = Template(Join(CommaSpace, listed))

\* in a run that follows one in which the upload pipeline rebound skills, a
\* summary lists "Python, SQL" in the default vocabulary's spelling
C10_Witness ==
    /\ prev.ran
    /\ uploaded_file.exists
    /\ about.kind = "summary"
    /\ about.text = Template(<<"P","y","t","h","o","n",","," ","S","Q","L">>)

=============================================================================
